---------------------------- MODULE Spec2Model ----------------------------
(***************************************************************************)
(* Email list tooling of src/App.tsx: the EmailValidation component        *)
(* (validateEmails, its 500 ms timer, the file reader) and the             *)
(* EmailExtractor component (handleExtract, copyResults).                  *)
(*                                                                         *)
(* A JavaScript string is modelled as a sequence of one-character strings, *)
(* so that the regular expressions, split, trim, toLowerCase, Set and sort *)
(* are computed character by character.                                    *)
(***************************************************************************)
EXTENDS Integers, Sequences, FiniteSets, TLC

VARIABLES
    inputText,        \* EmailValidation: useState('') of the textarea
    results,          \* EmailValidation: null or the ValidationResult
    loading,          \* EmailValidation: useState(false)
    error,            \* EmailValidation: useState('')
    timer,            \* pending setTimeout callbacks, each with the inputText its closure captured
    reader,           \* number of FileReader reads started and not yet completed
    exInputText,      \* EmailExtractor: useState('') of the textarea
    extractedEmails,  \* EmailExtractor: useState<string[]>([])
    clipboard,        \* navigator.clipboard, written by copyResults
    copyButtonText,   \* EmailExtractor: useState('Copy All')
    copyTimer         \* number of pending setTimeout callbacks of copyResults

vars == <<inputText, results, loading, error, timer, reader,
          exInputText, extractedEmails, clipboard, copyButtonText, copyTimer>>

validatorVars == <<inputText, results, loading, error, timer, reader>>
extractorVars == <<exInputText, extractedEmails, clipboard, copyButtonText, copyTimer>>

-----------------------------------------------------------------------------
(* Characters *)

LowerSeq == <<"a","b","c","d","e","f","g","h","i","j","k","l","m",
              "n","o","p","q","r","s","t","u","v","w","x","y","z">>
UpperSeq == <<"A","B","C","D","E","F","G","H","I","J","K","L","M",
              "N","O","P","Q","R","S","T","U","V","W","X","Y","Z">>
DigitSeq == <<"0","1","2","3","4","5","6","7","8","9">>

Range(s) == {s[i] : i \in 1..Len(s)}

Lower == Range(LowerSeq)
Upper == Range(UpperSeq)
Digit == Range(DigitSeq)

\* The characters of the model's texts in ascending UTF-16 code unit order.
CharOrder ==
    <<"\t", "\n", " ", "!", "\"", ",", "-", ".">> \o DigitSeq \o <<"@">>
    \o UpperSeq \o <<"[", "]", "_">> \o LowerSeq

Chars == Range(CharOrder)

\* Position of a character in code unit order: what the default sort compares.
CodeUnit == [c \in Chars |-> CHOOSE i \in 1..Len(CharOrder) : CharOrder[i] = c]

\* JavaScript's \s and the characters String.prototype.trim strips.
WhiteSpace == {" ", "\t", "\n"}

\* Characters the regular expression dot does not match.
LineTerminator == {"\n"}

-----------------------------------------------------------------------------
(* String.prototype helpers *)

ToLowerMap == [c \in Upper |-> LowerSeq[CHOOSE i \in 1..Len(UpperSeq) : UpperSeq[i] = c]]

toLowerCase(s) == [i \in 1..Len(s) |-> IF s[i] \in Upper THEN ToLowerMap[s[i]] ELSE s[i]]

trim(s) ==
    LET keep == {i \in 1..Len(s) : s[i] \notin WhiteSpace}
    IN  IF keep = {} THEN <<>>
        ELSE SubSeq(s, CHOOSE i \in keep : \A j \in keep : i <= j,
                       CHOOSE i \in keep : \A j \in keep : j <= i)

\* Least element of a non-empty set of positions.
Min(S) == CHOOSE i \in S : \A j \in S : i <= j

\* s.split(c) for a one-character separator c.
RECURSIVE split(_, _)
split(s, c) ==
    LET at == {i \in 1..Len(s) : s[i] = c}
    IN  IF at = {} THEN <<s>>
        ELSE <<SubSeq(s, 1, Min(at) - 1)>> \o split(SubSeq(s, Min(at) + 1, Len(s)), c)

\* arr.join(c) for a one-character separator c.
RECURSIVE join(_, _)
join(arr, c) ==
    IF arr = <<>> THEN <<>>
    ELSE IF Len(arr) = 1 THEN arr[1]
    ELSE arr[1] \o <<c>> \o join(Tail(arr), c)

\* arr.reverse()
Reverse(arr) == [i \in 1..Len(arr) |-> arr[Len(arr) + 1 - i]]

\* Variant: the distinct elements in last-occurrence order.
RECURSIVE SetOrderLast(_)
SetOrderLast(arr) ==
    IF arr = <<>> THEN <<>>
    ELSE LET rest == SetOrderLast(Tail(arr))
         IN  IF Head(arr) \in Range(rest) THEN rest ELSE <<Head(arr)>> \o rest

\* [...new Set(arr)]: the distinct elements in first-occurrence order.
RECURSIVE SetOrder(_)
SetOrder(arr) ==
    IF arr = <<>> THEN <<>>
    ELSE LET init == SetOrder(SubSeq(arr, 1, Len(arr) - 1))
             last == arr[Len(arr)]
         IN  IF last \in Range(init) THEN init ELSE Append(init, last)

-----------------------------------------------------------------------------
(* Reference data: ./data/disposable-domains, imported at App.tsx line 7 *)

disposableDomains ==
    { <<"m","a","i","l","i","n","a","t","o","r",".","c","o","m">> }

roleBasedEmails ==
    { <<"a","d","m","i","n">>,
      <<"n","o","r","e","p","l","y">>,
      <<"s","u","p","p","o","r","t">> }

-----------------------------------------------------------------------------
(* The validator's pattern, App.tsx line 2404 *)

\* Variant: the class without the "@".
AtomExcludedNoAt ==
    {"<", ">", "(", ")", "[", "]", "\\", ".", ",", ";", ":", "\""} \cup WhiteSpace

\* [^<>()[\]\\.,;:\s@"]
AtomExcluded ==
    {"<", ">", "(", ")", "[", "]", "\\", ".", ",", ";", ":", "@", "\""} \cup WhiteSpace

\* [^<>()[\]\\.,;:\s@"]+(\.[^<>()[\]\\.,;:\s@"]+)*
DotAtom(l) ==
    /\ Len(l) >= 1
    /\ \A i \in 1..Len(l) : l[i] = "." \/ l[i] \notin AtomExcluded
    /\ l[1] # "."
    /\ l[Len(l)] # "."
    /\ \A i \in 1..(Len(l) - 1) : ~(l[i] = "." /\ l[i + 1] = ".")

\* ".+"
QuotedString(l) ==
    /\ Len(l) >= 3
    /\ l[1] = "\""
    /\ l[Len(l)] = "\""
    /\ \A i \in 2..(Len(l) - 1) : l[i] \notin LineTerminator

\* [0-9]{1,3}
Octet(p) == Len(p) \in 1..3 /\ \A i \in 1..Len(p) : p[i] \in Digit

\* \[[0-9]{1,3}\.[0-9]{1,3}\.[0-9]{1,3}\.[0-9]{1,3}]
IpLiteral(d) ==
    /\ Len(d) >= 2
    /\ d[1] = "["
    /\ d[Len(d)] = "]"
    /\ LET parts == split(SubSeq(d, 2, Len(d) - 1), ".")
       IN  Len(parts) = 4 /\ \A i \in 1..4 : Octet(parts[i])

\* [a-zA-Z\-0-9]
HostChar == Lower \cup Upper \cup Digit \cup {"-"}

\* Variant: [a-zA-Z]+ as the final label.
HostNameAnyTld(d) ==
    LET labels == split(d, ".")
        n == Len(labels)
    IN  /\ n >= 2
        /\ \A i \in 1..(n - 1) :
              Len(labels[i]) >= 1 /\ \A j \in 1..Len(labels[i]) : labels[i][j] \in HostChar
        /\ Len(labels[n]) >= 1
        /\ \A j \in 1..Len(labels[n]) : labels[n][j] \in Lower \cup Upper

\* ([a-zA-Z\-0-9]+\.)+[a-zA-Z]{2,}
HostName(d) ==
    LET labels == split(d, ".")
        n == Len(labels)
    IN  /\ n >= 2
        /\ \A i \in 1..(n - 1) :
              Len(labels[i]) >= 1 /\ \A j \in 1..Len(labels[i]) : labels[i][j] \in HostChar
        /\ Len(labels[n]) >= 2
        /\ \A j \in 1..Len(labels[n]) : labels[n][j] \in Lower \cup Upper

\* emailRegex.test(email): ^(local)@(domain)$ matches when some "@" of the
\* string has a local-part before it and a domain after it.
emailRegexTest(email) ==
    \E k \in 1..Len(email) :
        /\ email[k] = "@"
        /\ LET l == SubSeq(email, 1, k - 1)
               d == SubSeq(email, k + 1, Len(email))
           IN  (DotAtom(l) \/ QuotedString(l)) /\ (IpLiteral(d) \/ HostName(d))

-----------------------------------------------------------------------------
(* validateEmails, the timer callback: App.tsx lines 2402-2436 *)

\* Variant: commas, blanks and tabs, without the newline.
SeparatorNoNewline == {",", " ", "\t"}

\* [,\s\n]
Separator == {","} \cup WhiteSpace

\* text.split(/[,\s\n]+/): the pieces between the runs of separators, with an
\* empty piece before a leading run and after a trailing one.
RECURSIVE splitSeparators(_)
splitSeparators(s) ==
    LET at == {i \in 1..Len(s) : s[i] \in Separator}
    IN  IF at = {} THEN <<s>>
        ELSE LET k == Min(at)
                 rest == {i \in (k + 1)..Len(s) : s[i] \notin Separator}
                 j == IF rest = {} THEN Len(s) + 1 ELSE Min(rest)
             IN  <<SubSeq(s, 1, k - 1)>> \o splitSeparators(SubSeq(s, j, Len(s)))

\* Variant: the pieces of the split, the empty ones kept.
emailsOfNoFilter(text) == splitSeparators(text)

\* inputText.split(/[,\s\n]+/).filter(e => e.trim() !== '')
emailsOf(text) == SelectSeq(splitSeparators(text), LAMBDA e : trim(e) # <<>>)

\* Variant: the Set built from the trimmed tokens in their original casing.
uniqueEmailsOfNoLower(emails) ==
    SetOrder([i \in 1..Len(emails) |-> trim(emails[i])])

\* [...new Set(emails.map(e => e.trim().toLowerCase()))]
uniqueEmailsOf(emails) ==
    SetOrder([i \in 1..Len(emails) |-> toLowerCase(trim(emails[i]))])

\* email.split('@')[1]: the text between the first "@" and the next one (or
\* the end). Only taken of a string that passed the pattern, which holds an "@".
domainOf(email) == split(email, "@")[2]

\* email.split('@')[0]: the text before the first "@".
userOf(email) == split(email, "@")[1]

\* Variant: && in place of ||.
isRiskyBoth(email) ==
    domainOf(email) \in disposableDomains /\ userOf(email) \in roleBasedEmails

\* disposableDomains.has(domain) || roleBasedEmails.has(user)
isRisky(email) ==
    domainOf(email) \in disposableDomains \/ userOf(email) \in roleBasedEmails

\* Variant: the inner else is missing, so a risky address is pushed on valid too.
classifyOneNoElse(validation, email) ==
    IF ~emailRegexTest(email)
    THEN [validation EXCEPT !.invalid = Append(@, email)]
    ELSE IF isRisky(email)
         THEN [validation EXCEPT !.risky = Append(@, email), !.valid = Append(@, email)]
         ELSE [validation EXCEPT !.valid = Append(@, email)]

\* One iteration of the for loop: push email on one of the three lists.
classifyOne(validation, email) ==
    IF ~emailRegexTest(email)
    THEN [validation EXCEPT !.invalid = Append(@, email)]
    ELSE IF isRisky(email)
         THEN [validation EXCEPT !.risky = Append(@, email)]
         ELSE [validation EXCEPT !.valid = Append(@, email)]

\* for (const email of uniqueEmails) { ... }
RECURSIVE classify(_)
classify(uniqueEmails) ==
    IF uniqueEmails = <<>>
    THEN [valid |-> <<>>, invalid |-> <<>>, risky |-> <<>>]
    ELSE classifyOne(classify(SubSeq(uniqueEmails, 1, Len(uniqueEmails) - 1)),
                     uniqueEmails[Len(uniqueEmails)])

\* Variant: duplicates counted against the distinct tokens in their original
\* casing, while the lists are built from the lowercased ones.
validationResultCaseCount(text) ==
    LET emails == emailsOf(text)
        uniqueEmails == uniqueEmailsOf(emails)
        validation == classify(uniqueEmails)
    IN  [valid |-> validation.valid,
         invalid |-> validation.invalid,
         risky |-> validation.risky,
         total |-> Len(emails),
         duplicates |-> Len(emails) - Len(SetOrder(emails))]

\* The object handed to setResults.
validationResult(text) ==
    LET emails == emailsOf(text)
        uniqueEmails == uniqueEmailsOf(emails)
        validation == classify(uniqueEmails)
    IN  [valid |-> validation.valid,
         invalid |-> validation.invalid,
         risky |-> validation.risky,
         total |-> Len(emails),
         duplicates |-> Len(emails) - Len(uniqueEmails)]

-----------------------------------------------------------------------------
(* handleExtract: App.tsx lines 2527-2536 *)

\* [a-zA-Z0-9._-]
ExtractChar == Lower \cup Upper \cup Digit \cup {".", "_", "-"}

\* Length of the longest run of pattern characters of s that starts at i.
runLength(s, i) ==
    LET stop == {j \in i..Len(s) : s[j] \notin ExtractChar}
    IN  IF stop = {} THEN Len(s) - i + 1 ELSE Min(stop) - i

\* The end of the match of [a-zA-Z0-9._-]+@[a-zA-Z0-9._-]+\.[a-zA-Z0-9._-]+
\* that starts at position i of s, or 0 when there is none. The first group
\* must run up to an "@"; the second, greedy, gives back characters until a
\* "." with a pattern character after it is found; the third, greedy, takes
\* the rest of the run.
matchEnd(s, i) ==
    LET n1 == runLength(s, i)
        a == i + n1
    IN  IF n1 = 0 \/ a > Len(s) \/ s[a] # "@" THEN 0
        ELSE LET n2 == runLength(s, a + 1)
                 dots == {k \in 1..(n2 - 2) : s[a + k + 1] = "."}
             IN  IF dots = {} THEN 0 ELSE a + n2

\* inputText.match(emailRegex) || [] with the g flag: the matches from
\* position pos on, left to right, each search resuming after the last match.
RECURSIVE matchAll(_, _)
matchAll(s, pos) ==
    LET starts == {i \in pos..Len(s) : matchEnd(s, i) # 0}
    IN  IF starts = {} THEN <<>>
        ELSE LET i == Min(starts)
                 e == matchEnd(s, i)
             IN  <<SubSeq(s, i, e)>> \o matchAll(s, e + 1)

\* a < b in the order of Array.prototype.sort without a comparator: by code
\* units, a proper prefix first.
RECURSIVE lessThan(_, _)
lessThan(a, b) ==
    IF b = <<>> THEN FALSE
    ELSE IF a = <<>> THEN TRUE
    ELSE IF a[1] # b[1] THEN CodeUnit[a[1]] < CodeUnit[b[1]]
    ELSE lessThan(Tail(a), Tail(b))

\* Insert x into the sorted array arr, after the elements not greater than x.
RECURSIVE insertSorted(_, _)
insertSorted(arr, x) ==
    IF arr = <<>> THEN <<x>>
    ELSE IF lessThan(x, arr[1]) THEN <<x>> \o arr
    ELSE <<arr[1]>> \o insertSorted(Tail(arr), x)

\* Variant: arr.reverse() in place of arr.sort().
sortReversed(arr) == Reverse(arr)

\* arr.sort()
RECURSIVE sort(_)
sort(arr) ==
    IF arr = <<>> THEN <<>>
    ELSE insertSorted(sort(SubSeq(arr, 1, Len(arr) - 1)), arr[Len(arr)])

\* Variant: the matches are sorted before they are lowercased.
extractEmailsSortFirst(text) ==
    IF trim(text) = <<>> THEN <<>>
    ELSE LET foundEmails == sort(matchAll(text, 1))
         IN  SetOrder([i \in 1..Len(foundEmails) |-> toLowerCase(foundEmails[i])])

\* Variant: the Set built from the matches in their original casing.
extractEmailsNoLower(text) ==
    IF trim(text) = <<>> THEN <<>>
    ELSE sort(SetOrder(matchAll(text, 1)))

\* The array handed to setExtractedEmails.
extractEmails(text) ==
    IF trim(text) = <<>> THEN <<>>
    ELSE LET foundEmails == matchAll(text, 1)
             uniqueEmails == SetOrder([i \in 1..Len(foundEmails) |-> toLowerCase(foundEmails[i])])
         IN  sort(uniqueEmails)

-----------------------------------------------------------------------------
(* Input texts *)

MaxPieces == 3
MaxEmails == 3
MaxReads == 1
MaxCopies == 1

\* All sequences of 1..n elements of S.
SeqsUpTo(S, n) == UNION {[1..k -> S] : k \in 1..n}

\* The concatenation of a sequence of strings.
RECURSIVE concat(_)
concat(ss) == IF ss = <<>> THEN <<>> ELSE ss[1] \o concat(Tail(ss))

Admin == <<"a","d","m","i","n">>
Mailinator == <<"m","a","i","l","i","n","a","t","o","r",".","c","o","m">>
BCom == <<"b",".","c","o","m">>

\* Fragments a pasted list is made of: local-parts, domains, separators.
Pieces ==
    { <<"a">>, <<"A">>, Admin, <<"\"","a","@","b","\"">>,
      <<"@">>, <<".">>, <<"-">>,
      BCom, Mailinator, <<"s","u","b",".">>, <<"b",".","c">>,
      <<"[","1",".","2",".","3",".","4","]">>,
      <<",">>, <<" ">>, <<"\n">> }

PieceTexts == {concat(ps) : ps \in SeqsUpTo(Pieces, MaxPieces)}

\* Whole list entries, one of each kind the validator tells apart.
SampleEmails ==
    { <<"a","@">> \o BCom,
      <<"A","@","B",".","c","o","m">>,
      <<"x","@">> \o Mailinator,
      <<"X","@">> \o Mailinator,
      Admin \o <<"@">> \o BCom,
      Admin \o <<"@">> \o Mailinator,
      <<"\"","a","@","b","\"","@">> \o Mailinator,
      <<"\"","@">> \o Mailinator \o <<"@","\"","@">> \o BCom,
      <<"x","@","s","u","b",".">> \o Mailinator,
      <<"a","@","b","@","c",".","c","o","m">>,
      <<"n","o","t","-","a","n","-","e","m","a","i","l">>,
      <<"a","@","b",".","c">> }

ListSeparators == { <<",", " ">>, <<"\n">> }

RECURSIVE joinWith(_, _)
joinWith(arr, sep) ==
    IF Len(arr) = 1 THEN arr[1] ELSE arr[1] \o sep \o joinWith(Tail(arr), sep)

ListTexts ==
    {joinWith(es, sep) : es \in SeqsUpTo(SampleEmails, MaxEmails), sep \in ListSeparators}

\* A pasted list with leading, trailing and doubled separators.
MessyList ==
    <<",", " ">> \o <<"a","@">> \o BCom \o <<",", ",", " ", "\n">>
        \o <<"x","@">> \o Mailinator \o <<" ", ",">>

\* A quoted local-part holding "@" in front of a subdomain of a listed domain.
QuotedAtSubdomain ==
    <<"\"","@">> \o Mailinator \o <<"@","\"","@","s","u","b",".">> \o Mailinator

ExampleTexts == {MessyList, QuotedAtSubdomain}

ValidatorTexts == PieceTexts \cup ListTexts \cup ExampleTexts

\* Fragments of free text: letters, punctuation, and whole addresses.
ProsePieces ==
    { <<"a">>, <<"Z">>, <<"1">>, <<"@">>, <<".">>, <<"-">>, <<"_">>,
      <<"b",".","c">>,
      <<" ">>, <<"\n">>, <<"!">>, <<",">>,
      <<"z","@","y",".","x">>,
      <<"B","@","c",".","d">>,
      <<"a","@","b",".","c","c">> }

\* A sentence with the same address in two casings, followed by punctuation.
ExampleProse ==
    <<"c","o","n","t","a","c","t"," ","u","s"," ","a","t"," ","J","a","n",
      "e","@","E","x","a","m","p","l","e",".","C","O","M"," ","o","r"," ",
      "j","a","n","e","@","e","x","a","m","p","l","e",".","c","o","m","!">>

ExtractorTexts ==
    {concat(ps) : ps \in SeqsUpTo(ProsePieces, MaxPieces)} \cup {ExampleProse}

\* Fragments of the texts whose extracted list is handed on to the validator.
PipelinePieces ==
    { <<"a">>, <<"@">>, <<"!">>, <<"_">>, <<" ">>,
      <<"b",".","c">>,
      <<"Z","@","y",".","x">>,
      <<"a","@","b",".","c","c">> }

PipelineTexts == {concat(ps) : ps \in SeqsUpTo(PipelinePieces, MaxPieces)}

\* What a user types into the two text areas of the running application:
\* nothing, white space only, separators only, a list with a duplicate, a
\* role-based, a disposable and a malformed entry, and a line of prose with
\* another address.
UiTexts ==
    { <<>>,
      <<" ", "\n", " ">>,
      <<",">>,
      <<"A","@">> \o BCom \o <<",", " ", "a", "@">> \o BCom \o <<"\n">>
        \o Admin \o <<"@">> \o BCom \o <<"\n", "x", "@">> \o Mailinator
        \o <<" ", "b", "a", "d">>,
      <<"t","o"," ","Z","@","y",".","x","!">> }

-----------------------------------------------------------------------------
(* State machine *)

null == <<>>

Init ==
    /\ inputText = <<>>
    /\ results = null
    /\ loading = FALSE
    /\ error = ""
    /\ timer = <<>>
    /\ reader = 0
    /\ exInputText = <<>>
    /\ extractedEmails = <<>>
    /\ clipboard = <<>>
    /\ copyButtonText = "Copy All"
    /\ copyTimer = 0

\* onChange of the validator's textarea.
SetInputText ==
    /\ \E t \in UiTexts : inputText' = t
    /\ UNCHANGED <<results, loading, error, timer, reader>>
    /\ UNCHANGED extractorVars

\* handleFileSelect: a FileReader starts reading the file.
HandleFileSelect ==
    /\ reader < MaxReads
    /\ reader' = reader + 1
    /\ UNCHANGED <<inputText, results, loading, error, timer>>
    /\ UNCHANGED extractorVars

\* reader.onload: a read completes and delivers the file's content.
ReaderOnload ==
    /\ reader > 0
    /\ reader' = reader - 1
    /\ \E content \in UiTexts : inputText' = content
    /\ UNCHANGED <<results, loading, error, timer>>
    /\ UNCHANGED extractorVars

\* Variant: a failed read also empties the text area.
ReaderOnerrorClearsText ==
    /\ reader > 0
    /\ reader' = reader - 1
    /\ error' = "Failed to read the file."
    /\ inputText' = <<>>
    /\ UNCHANGED <<results, loading, timer>>
    /\ UNCHANGED extractorVars

\* reader.onerror: a read fails.
ReaderOnerror ==
    /\ reader > 0
    /\ reader' = reader - 1
    /\ error' = "Failed to read the file."
    /\ UNCHANGED <<inputText, results, loading, timer>>
    /\ UNCHANGED extractorVars

\* onChange of the validator's textarea when the clipboard is pasted into the
\* empty text area.
PasteInputText ==
    /\ inputText' = clipboard
    /\ UNCHANGED <<results, loading, error, timer, reader>>
    /\ UNCHANGED extractorVars

\* Variant: !inputText, without the trim.
isBlankNoTrim(text) == text = <<>>

\* !inputText.trim()
isBlank(text) == trim(text) = <<>>

\* Variant: an accepted validation leaves the previous result displayed.
ValidateEmailsKeepsResult ==
    /\ ~loading
    /\ IF isBlank(inputText)
       THEN /\ error' = "Please provide emails to validate."
            /\ UNCHANGED <<results, loading, timer>>
       ELSE /\ loading' = TRUE
            /\ error' = ""
            /\ results' = results
            /\ timer' = Append(timer, inputText)
    /\ UNCHANGED <<inputText, reader>>
    /\ UNCHANGED extractorVars

\* Variant: a rejected validation also clears the displayed result.
ValidateEmailsClearsOnBlank ==
    /\ ~loading
    /\ IF isBlank(inputText)
       THEN /\ error' = "Please provide emails to validate."
            /\ results' = null
            /\ UNCHANGED <<loading, timer>>
       ELSE /\ loading' = TRUE
            /\ error' = ""
            /\ results' = null
            /\ timer' = Append(timer, inputText)
    /\ UNCHANGED <<inputText, reader>>
    /\ UNCHANGED extractorVars

\* Variant: the submit button stays enabled while loading.
ValidateEmailsNoGuard ==
    /\ IF isBlank(inputText)
       THEN /\ error' = "Please provide emails to validate."
            /\ UNCHANGED <<results, loading, timer>>
       ELSE /\ loading' = TRUE
            /\ error' = ""
            /\ results' = null
            /\ timer' = Append(timer, inputText)
    /\ UNCHANGED <<inputText, reader>>
    /\ UNCHANGED extractorVars

\* Click on the submit button (disabled while loading): validateEmails up to
\* and including the setTimeout call.
ValidateEmails ==
    /\ ~loading
    /\ IF isBlank(inputText)
       THEN /\ error' = "Please provide emails to validate."
            /\ UNCHANGED <<results, loading, timer>>
       ELSE /\ loading' = TRUE
            /\ error' = ""
            /\ results' = null
            /\ timer' = Append(timer, inputText)
    /\ UNCHANGED <<inputText, reader>>
    /\ UNCHANGED extractorVars

\* Variant: the callback delivers the result without setLoading(false).
TimeoutKeepsLoading ==
    /\ timer # <<>>
    /\ results' = <<validationResult(Head(timer))>>
    /\ loading' = loading
    /\ timer' = Tail(timer)
    /\ UNCHANGED <<inputText, error, reader>>
    /\ UNCHANGED extractorVars

\* Variant: the callback reads the text area when it runs.
TimeoutCurrentText ==
    /\ timer # <<>>
    /\ results' = <<validationResult(inputText)>>
    /\ loading' = FALSE
    /\ timer' = Tail(timer)
    /\ UNCHANGED <<inputText, error, reader>>
    /\ UNCHANGED extractorVars

\* The setTimeout callback, run on the inputText its closure captured.
Timeout ==
    /\ timer # <<>>
    /\ results' = <<validationResult(Head(timer))>>
    /\ loading' = FALSE
    /\ timer' = Tail(timer)
    /\ UNCHANGED <<inputText, error, reader>>
    /\ UNCHANGED extractorVars

\* onChange of the extractor's textarea; pasting the clipboard is one way.
SetExInputText ==
    /\ \E t \in UiTexts \cup {clipboard} : exInputText' = t
    /\ UNCHANGED <<extractedEmails, clipboard, copyButtonText, copyTimer>>
    /\ UNCHANGED validatorVars

\* Variant: the new matches are merged into the list already shown.
HandleExtractMerge ==
    /\ extractedEmails' = sort(SetOrder(extractedEmails \o extractEmails(exInputText)))
    /\ UNCHANGED <<exInputText, clipboard, copyButtonText, copyTimer>>
    /\ UNCHANGED validatorVars

\* Variant: a text without a match leaves the list as it is and reports an
\* error.
HandleExtractKeepOnNoMatch ==
    /\ IF extractEmails(exInputText) = <<>>
       THEN extractedEmails' = extractedEmails /\ error' = "No email addresses found."
       ELSE extractedEmails' = extractEmails(exInputText) /\ error' = error
    /\ UNCHANGED <<exInputText, clipboard, copyButtonText, copyTimer>>
    /\ UNCHANGED <<inputText, results, loading, timer, reader>>

\* handleExtract
HandleExtract ==
    /\ extractedEmails' = extractEmails(exInputText)
    /\ UNCHANGED <<exInputText, clipboard, copyButtonText, copyTimer>>
    /\ UNCHANGED validatorVars

\* copyResults: nothing happens on an empty list; otherwise the list joined
\* by newlines goes to the clipboard and the button text is set for 2 s.
CopyResults ==
    /\ copyTimer < MaxCopies
    /\ IF Len(extractedEmails) > 0
       THEN /\ clipboard' = join(extractedEmails, "\n")
            /\ copyButtonText' = "Copied!"
            /\ copyTimer' = copyTimer + 1
       ELSE UNCHANGED <<clipboard, copyButtonText, copyTimer>>
    /\ UNCHANGED <<exInputText, extractedEmails>>
    /\ UNCHANGED validatorVars

\* setTimeout(() => setCopyButtonText('Copy All'), 2000)
CopyTimeout ==
    /\ copyTimer > 0
    /\ copyButtonText' = "Copy All"
    /\ copyTimer' = copyTimer - 1
    /\ UNCHANGED <<exInputText, extractedEmails, clipboard>>
    /\ UNCHANGED validatorVars

Next ==
    \/ SetInputText
    \/ HandleFileSelect
    \/ ReaderOnload
    \/ ReaderOnerror
    \/ ValidateEmails
    \/ Timeout
    \/ SetExInputText
    \/ HandleExtract
    \/ CopyResults
    \/ CopyTimeout

Spec == Init /\ [][Next]_vars

\* The EmailValidation component alone: the EmailExtractor component shares no
\* state with it.
ValidatorNext ==
    \/ SetInputText
    \/ HandleFileSelect
    \/ ReaderOnload
    \/ ReaderOnerror
    \/ ValidateEmails
    \/ Timeout

ValidatorSpec == Init /\ [][ValidatorNext]_vars

\* A pending timer is taken off the timer queue. Timeout is the only action
\* that shortens the queue, and it is enabled exactly when the queue is not
\* empty, so a TimerFires step is a Timeout step and the other way round.
TimerFires == timer # <<>> /\ timer' = Tail(timer)

\* The 500 ms timer of a pending validation fires: weak fairness of Timeout,
\* stated on TimerFires, whose enabling condition needs no evaluation of the
\* recursive operators of the callback.
ValidatorFairSpec == ValidatorSpec /\ WF_timer(TimerFires)

\* The validator run once on each text of ValidatorTexts.
InitValidate ==
    /\ inputText \in ValidatorTexts
    /\ results = null
    /\ loading = FALSE
    /\ error = ""
    /\ timer = <<>>
    /\ reader = 0
    /\ exInputText = <<>>
    /\ extractedEmails = <<>>
    /\ clipboard = <<>>
    /\ copyButtonText = "Copy All"
    /\ copyTimer = 0

NextValidate == ValidateEmails \/ Timeout

SpecValidate == InitValidate /\ [][NextValidate]_vars

\* The extractor run once on each text of ExtractorTexts.
InitExtract ==
    /\ exInputText \in ExtractorTexts
    /\ extractedEmails = <<>>
    /\ clipboard = <<>>
    /\ copyButtonText = "Copy All"
    /\ copyTimer = 0
    /\ inputText = <<>>
    /\ results = null
    /\ loading = FALSE
    /\ error = ""
    /\ timer = <<>>
    /\ reader = 0

NextExtract == HandleExtract

SpecExtract == InitExtract /\ [][NextExtract]_vars

\* The extractor run on each text of ExtractorTexts, its list copied, pasted
\* into the validator and validated.
InitPipeline ==
    /\ exInputText \in PipelineTexts
    /\ extractedEmails = <<>>
    /\ clipboard = <<>>
    /\ copyButtonText = "Copy All"
    /\ copyTimer = 0
    /\ inputText = <<>>
    /\ results = null
    /\ loading = FALSE
    /\ error = ""
    /\ timer = <<>>
    /\ reader = 0

NextPipeline ==
    \/ HandleExtract
    \/ CopyResults
    \/ CopyTimeout
    \/ PasteInputText
    \/ ValidateEmails
    \/ Timeout

SpecPipeline == InitPipeline /\ [][NextPipeline]_vars

-----------------------------------------------------------------------------
(* Properties *)

\* The three lists of a result, one after the other.
allListed(r) == r.valid \o r.invalid \o r.risky

\* The unique lowercased tokens of the text the displayed result was made from
\* (under SpecValidate the text never changes).
tokensOf(text) == uniqueEmailsOf(emailsOf(text))

\* The part of an address after its last "@", and the part before it.
LastAt(u) == CHOOSE k \in 1..Len(u) : u[k] = "@" /\ \A j \in (k + 1)..Len(u) : u[j] # "@"
DomainPart(u) == SubSeq(u, LastAt(u) + 1, Len(u))
LocalPart(u) == SubSeq(u, 1, LastAt(u) - 1)

InputRequired == "Please provide emails to validate."

\* C1: in every result validateEmails produces,
\* valid.length + invalid.length + risky.length + duplicates = total.
C1_PartitionTotals ==
    results # null =>
        LET r == results[1]
        IN  Len(r.valid) + Len(r.invalid) + Len(r.risky) + r.duplicates = r.total

\* A result with a duplicate removed and entries in two of the lists.
C1_Witness ==
    /\ results # null
    /\ results[1].duplicates > 0
    /\ results[1].valid # <<>>
    /\ results[1].risky # <<>>

\* C2: in every result no string occurs twice in valid, invalid and risky
\* taken together: not twice in one list, not in two lists.
C2_MutuallyExclusive ==
    results # null =>
        LET all == allListed(results[1])
        IN  \A i, j \in 1..Len(all) : all[i] = all[j] => i = j

\* A result with entries in all three lists.
C2_Witness ==
    /\ results # null
    /\ results[1].valid # <<>>
    /\ results[1].invalid # <<>>
    /\ results[1].risky # <<>>

\* C3: each unique token goes to invalid when it fails the strict pattern
\* (whatever its local-part and domain); when it passes, to risky exactly
\* when its domain is disposable or its local-part role-based, and to valid
\* otherwise.
C3_ClassificationOrder ==
    results # null =>
        LET r == results[1]
        IN  \A u \in Range(tokensOf(inputText)) :
                IF ~emailRegexTest(u)
                THEN u \in Range(r.invalid)
                ELSE IF DomainPart(u) \in disposableDomains \/ LocalPart(u) \in roleBasedEmails
                     THEN u \in Range(r.risky)
                     ELSE u \in Range(r.valid)

\* C4: validateEmails on blank text only sets the input-required error: no
\* timer is scheduled, loading stays false, the result is untouched; and
\* handleExtract on empty text yields the empty list and touches no error.
C4_BlankInputRejected ==
    [][ /\ (trim(inputText) = <<>> /\ ValidateEmails) =>
              /\ error' = InputRequired
              /\ timer' = timer
              /\ loading = FALSE /\ loading' = FALSE
              /\ results' = results
        /\ (exInputText = <<>> /\ HandleExtract) =>
              /\ extractedEmails' = <<>>
              /\ error' = error
      ]_vars

\* White space only in the text area, rejected, with an earlier extraction
\* of the empty text done.
C4_Witness ==
    /\ inputText = <<" ", "\n", " ">>
    /\ error = InputRequired
    /\ ~loading
    /\ timer = <<>>
    /\ exInputText = <<>>
    /\ extractedEmails = <<>>

ExampleDuplicate == <<"A","@","B",".","c","o","m",","," ","a","@","b",".","c","o","m">>

\* C5: duplicates = total - number of distinct lowercased tokens; for
\* "A@B.com, a@b.com" total = 2, duplicates = 1 and "a@b.com" alone survives.
C5_CaseInsensitiveDedup ==
    results # null =>
        LET r == results[1]
            emails == emailsOf(inputText)
        IN  /\ r.duplicates = r.total - Cardinality({toLowerCase(e) : e \in Range(emails)})
            /\ inputText = ExampleDuplicate =>
                  /\ r.total = 2
                  /\ r.duplicates = 1
                  /\ allListed(r) = << <<"a","@","b",".","c","o","m">> >>

C5_Witness == results # null /\ inputText = ExampleDuplicate

\* C6: every token that passes the strict pattern and whose domain is in the
\* disposable-domain set is in risky and not in valid.
C6_DisposableIsRisky ==
    results # null =>
        LET r == results[1]
        IN  \A u \in Range(tokensOf(inputText)) :
                (emailRegexTest(u) /\ DomainPart(u) \in disposableDomains) =>
                    (u \in Range(r.risky) /\ u \notin Range(r.valid))

\* C7: every token that passes the strict pattern and whose local-part is in
\* the role-based set is in risky, whatever its domain.
C7_RoleBasedIsRisky ==
    results # null =>
        LET r == results[1]
        IN  \A u \in Range(tokensOf(inputText)) :
                (emailRegexTest(u) /\ LocalPart(u) \in roleBasedEmails) =>
                    u \in Range(r.risky)

\* admin@b.com, whose domain is not disposable, is reported risky.
C7_Witness ==
    /\ results # null
    /\ (Admin \o <<"@">> \o BCom) \in Range(results[1].risky)

\* C8: an accepted validation has its callback pending until the result is
\* delivered, and in the result each token that fails the strict pattern is
\* in invalid and each token that passes it and has neither a disposable
\* domain nor a role-based local-part is in valid.
C8_MalformedIsInvalid ==
    /\ loading => timer # <<>>
    /\ results # null =>
          LET r == results[1]
          IN  \A u \in Range(tokensOf(inputText)) :
                  /\ ~emailRegexTest(u) => u \in Range(r.invalid)
                  /\ ( /\ emailRegexTest(u)
                       /\ DomainPart(u) \notin disposableDomains
                       /\ LocalPart(u) \notin roleBasedEmails ) => u \in Range(r.valid)

\* C9: extracting from the newline-joined output of an extraction gives the
\* same list again.
C9_ExtractIdempotent ==
    extractEmails(join(extractedEmails, "\n")) = extractedEmails

\* An extraction that found at least two addresses.
C9_Witness == Len(extractedEmails) >= 2

\* a < b lexicographically by code units: at the first position where they
\* differ a has the smaller code unit, or a ends there and b does not.
LexLess(a, b) ==
    \E k \in 1..(Len(b)) :
        /\ k <= Len(a) + 1
        /\ \A i \in 1..(k - 1) : a[i] = b[i]
        /\ (k = Len(a) + 1 \/ CodeUnit[a[k]] < CodeUnit[b[k]])

\* The matches of the extractor's text in reverse order, one to a line.
reversedMatches(text) == join(Reverse(matchAll(text, 1)), "\n")

\* C10: the extracted list is strictly ascending in lexicographic order (so
\* it has no repeated element), and a text with the same addresses in the
\* opposite order yields the same list.
C10_SortedUnique ==
    /\ \A i \in 1..(Len(extractedEmails) - 1) :
          LexLess(extractedEmails[i], extractedEmails[i + 1])
    /\ extractedEmails # <<>> =>
          extractEmails(reversedMatches(exInputText)) = extractedEmails

\* Two addresses found in descending order in the text, listed ascending.
C10_Witness ==
    /\ Len(extractedEmails) >= 2
    /\ LET found == matchAll(exInputText, 1)
       IN  Len(found) >= 2 /\ LexLess(toLowerCase(found[2]), toLowerCase(found[1]))


\* The occurrences of an address in a text, as sets of positions: the
\* address stands there in some casing, with no pattern character right
\* before it or right after it.
standsAt(text, e, i) ==
    /\ i + Len(e) - 1 <= Len(text)
    /\ \A k \in 1..Len(e) :
          text[i + k - 1] = e[k] \/ (text[i + k - 1] \in Upper /\ ToLowerMap[text[i + k - 1]] = e[k])
    /\ (i = 1 \/ text[i - 1] \notin ExtractChar)
    /\ (i + Len(e) > Len(text) \/ text[i + Len(e)] \notin ExtractChar)

\* C11: the extracted entries hold no uppercase letter and no character
\* outside the pattern's class and "@", each stands in the text in some
\* casing, occurrences that differ only in case give one entry, and the text
\* "contact us at Jane@Example.COM or jane@example.com!" gives exactly
\* ["jane@example.com"].
C11_CaseFoldedRecall ==
    /\ \A n \in 1..Len(extractedEmails) :
          LET e == extractedEmails[n]
          IN  /\ \A k \in 1..Len(e) : e[k] \in (ExtractChar \ Upper) \cup {"@"}
              /\ \E i \in 1..Len(exInputText) : standsAt(exInputText, e, i)
              /\ \A m \in 1..Len(extractedEmails) : extractedEmails[m] = e => m = n
    /\ (exInputText = ExampleProse /\ extractedEmails # <<>>) =>
          extractedEmails = << <<"j","a","n","e","@","e","x","a","m","p","l","e",".","c","o","m">> >>

\* The example sentence, extracted.
C11_Witness == exInputText = ExampleProse /\ extractedEmails # <<>>


atCount(u) == Cardinality({k \in 1..Len(u) : u[k] = "@"})

\* A quoted string: a double quote, at least one character, a double quote.
quoted(l) == Len(l) >= 3 /\ l[1] = "\"" /\ l[Len(l)] = "\""

\* C13 as stated: every token with more than one "@" is in invalid and in
\* neither valid nor risky, quoted local-part or not.
C13_MultiAtInvalid ==
    results # null =>
        LET r == results[1]
        IN  \A u \in Range(tokensOf(inputText)) :
                atCount(u) > 1 =>
                    (u \in Range(r.invalid) /\ u \notin Range(r.valid) \cup Range(r.risky))

\* C13 amended: every token with more than one "@" is in invalid and in
\* neither valid nor risky, unless the part before its last "@" is a quoted
\* string.
C13_MultiAtUnquotedInvalid ==
    results # null =>
        LET r == results[1]
        IN  \A u \in Range(tokensOf(inputText)) :
                (atCount(u) > 1 /\ ~quoted(LocalPart(u))) =>
                    (u \in Range(r.invalid) /\ u \notin Range(r.valid) \cup Range(r.risky))

\* a@b@c.com is reported invalid.
C13_Witness ==
    /\ results # null
    /\ <<"a","@","b","@","c",".","c","o","m">> \in Range(results[1].invalid)


\* C14: for every token that passes the strict pattern, the domain looked up
\* in the disposable-domain set is the part after the token's last "@" and the
\* local-part looked up in the role-based set is the part before that "@".
C14_SplitOnLastAt ==
    results # null =>
        \A u \in Range(tokensOf(inputText)) :
            emailRegexTest(u) =>
                (domainOf(u) = DomainPart(u) /\ userOf(u) = LocalPart(u))


\* A comma or a whitespace character.
commaOrSpace(c) == c = "," \/ c \in WhiteSpace

\* The positions of a text where a token starts: a character that is not a
\* separator, at the start of the text or right after a separator.
tokenStarts(text) ==
    {i \in 1..Len(text) :
        ~commaOrSpace(text[i]) /\ (i = 1 \/ commaOrSpace(text[i - 1]))}

\* C15: total is the number of maximal runs of non-separator characters of
\* the input; leading, trailing and consecutive separators add nothing.
C15_TotalCountsTokens ==
    results # null => results[1].total = Cardinality(tokenStarts(inputText))

\* A list with leading, trailing and doubled separators was validated and
\* counted as two tokens.
C15_Witness ==
    /\ results # null
    /\ inputText = MessyList
    /\ results[1].total = 2


\* C16: every result validateEmails produces has total >= 1 and at least one
\* non-empty list among valid, invalid and risky.
C16_ResultNotEmpty ==
    results # null =>
        LET r == results[1]
        IN  r.total >= 1 /\ allListed(r) # <<>>


\* The tokens of a text, lowercased, duplicates kept, in input order.
loweredTokens(text) ==
    LET emails == emailsOf(text)
    IN  [i \in 1..Len(emails) |-> toLowerCase(trim(emails[i]))]

\* The place of the first occurrence of u among the lowered tokens; 0 when u
\* is not one of them.
firstSeen(u, toks) ==
    LET at == {i \in 1..Len(toks) : toks[i] = u}
    IN  IF at = {} THEN 0 ELSE Min(at)

\* A list is in first-occurrence order.
inFirstSeenOrder(list, toks) ==
    \A m, n \in 1..Len(list) :
        m < n => firstSeen(list[m], toks) < firstSeen(list[n], toks)

\* C17: each of valid, invalid and risky lists its entries in the order of
\* their first occurrence in the input.
C17_FirstOccurrenceOrder ==
    results # null =>
        LET r == results[1]
            toks == loweredTokens(inputText)
        IN  /\ inFirstSeenOrder(r.valid, toks)
            /\ inFirstSeenOrder(r.invalid, toks)
            /\ inFirstSeenOrder(r.risky, toks)

\* Two risky addresses, the first of them repeated after the second.
C17_Witness ==
    /\ results # null
    /\ Len(results[1].risky) = 2
    /\ LET toks == loweredTokens(inputText)
       IN  Len(toks) = 3 /\ toks[3] = results[1].risky[1]


\* A domain that ends in "." followed by a listed disposable domain.
subdomainOfListed(dom) ==
    \E d \in disposableDomains :
        /\ Len(dom) > Len(d) + 1
        /\ SubSeq(dom, Len(dom) - Len(d), Len(dom)) = <<".">> \o d

\* C18: a token that passes the strict pattern, whose domain is a subdomain of
\* a listed disposable domain without being listed itself, and whose
\* local-part is not role-based, is in valid and not in risky.
C18_SubdomainIsValid ==
    results # null =>
        LET r == results[1]
        IN  \A u \in Range(tokensOf(inputText)) :
                ( /\ emailRegexTest(u)
                  /\ subdomainOfListed(DomainPart(u))
                  /\ DomainPart(u) \notin disposableDomains
                  /\ LocalPart(u) \notin roleBasedEmails ) =>
                    (u \in Range(r.valid) /\ u \notin Range(r.risky))


\* The token that starts at position i of a text: the characters up to the
\* next separator or the end.
tokenAt(text, i) ==
    LET stops == {j \in i..Len(text) : commaOrSpace(text[j])}
    IN  SubSeq(text, i, IF stops = {} THEN Len(text) ELSE Min(stops) - 1)

\* e is t with every uppercase letter replaced by its lowercase one.
lowercasedFormOf(e, t) ==
    /\ Len(e) = Len(t)
    /\ \A k \in 1..Len(t) :
          e[k] = (IF t[k] \in Upper THEN ToLowerMap[t[k]] ELSE t[k])

holdsAddress(text) ==
    \E k \in 2..Len(text) :
        /\ text[k] = "@"
        /\ text[k - 1] \in ExtractChar
        /\ \E p \in (k + 2)..(Len(text) - 1) :
              /\ text[p] = "."
              /\ \A j \in (k + 1)..(p + 1) : text[j] \in ExtractChar

\* C20: an extraction from a text that is empty, blank or without a match
\* leaves the extracted list empty and raises no error, and every entry of a
\* newly extracted list stands in the text it was extracted from, so no entry
\* of an earlier extraction survives.
C20_ExtractionReplaces ==
    [][ /\ (~holdsAddress(exInputText) /\ HandleExtract) =>
              (extractedEmails' = <<>> /\ error' = error)
        /\ (extractedEmails' # extractedEmails) =>
              \A n \in 1..Len(extractedEmails') :
                  \E i \in 1..Len(exInputText) :
                      standsAt(exInputText, extractedEmails'[n], i)
      ]_vars

\* A list that was extracted and copied has been replaced by the empty list of
\* a text without a match.
C20_Witness ==
    /\ clipboard # <<>>
    /\ extractedEmails = <<>>
    /\ exInputText = <<",">>


\* An address of the extractor's shape, alone in a text, whose final label is
\* a single letter: characters of the class around one "@", ending in "."
\* and a letter.
oneLetterTld(t) ==
    /\ Len(t) >= 5
    /\ atCount(t) = 1
    /\ \A k \in 1..Len(t) : t[k] \in ExtractChar \cup {"@"}
    /\ t[1] # "@"
    /\ t[Len(t)] \in Lower \cup Upper
    /\ t[Len(t) - 1] = "."
    /\ LastAt(t) < Len(t) - 2

\* C21: an address whose top-level label is a single letter, such as a@b.c,
\* is returned whole (lowercased) by the extractor and placed in invalid by
\* the validator.
C21_PatternsDiverge ==
    oneLetterTld(exInputText) =>
        LET e == [k \in 1..Len(exInputText) |->
                    IF exInputText[k] \in Upper THEN ToLowerMap[exInputText[k]]
                    ELSE exInputText[k]]
        IN  /\ extractedEmails \in {<<>>, <<e>>}
            /\ clipboard \in {<<>>, e}
            /\ inputText \in {<<>>, e}
            /\ results # null =>
                  /\ results[1].invalid = <<e>>
                  /\ results[1].valid = <<>>
                  /\ results[1].risky = <<>>

\* a@b.c was extracted, and the extracted list was validated: a@b.c is
\* invalid.
C21_Witness ==
    /\ exInputText = <<"a","@","b",".","c">>
    /\ extractedEmails = << <<"a","@","b",".","c">> >>
    /\ results # null
    /\ results[1].invalid = << <<"a","@","b",".","c">> >>


\* C22: for every text that is one token passing the validator's strict
\* pattern, the extractor's list is that token, lowercased, and nothing else.
C22_ExtractorLooser ==
    ( /\ exInputText # <<>>
      /\ \A k \in 1..Len(exInputText) : ~commaOrSpace(exInputText[k])
      /\ emailRegexTest(toLowerCase(exInputText))
      /\ extractedEmails # <<>> ) =>
        extractedEmails = <<toLowerCase(exInputText)>>


FailedToRead == "Failed to read the file."

\* C23: a step that raises the file-read error completes one pending read and
\* changes nothing else: the input text, the loading flag, the displayed
\* result and the pending validation stay as they were.
C23_FailedReadOnlyError ==
    [][ (error' = FailedToRead /\ error # FailedToRead) =>
            /\ reader' = reader - 1
            /\ inputText' = inputText
            /\ loading' = loading
            /\ results' = results
            /\ timer' = timer
      ]_vars

\* A read failed while a text and its result were displayed; both are still
\* there.
C23_Witness ==
    /\ error = FailedToRead
    /\ inputText # <<>>
    /\ results # null
    /\ results[1].total > 0


\* C24: at most one validation is in progress: never more than one timer is
\* pending, and loading is true exactly while one is.
C24_OneValidationAtATime ==
    /\ Len(timer) <= 1
    /\ loading <=> (timer # <<>>)

\* A validation is in progress while the text area already holds another
\* text.
C24_Witness ==
    /\ loading
    /\ Len(timer) = 1
    /\ inputText # Head(timer)
    /\ ~isBlank(inputText)


\* C25: when the pending timer fires, every accepted validation completes:
\* loading = true leads to a state with loading = false and a non-null result.
C25_ValidationCompletes == loading ~> (~loading /\ results # null)

\* A validation has completed: its result is displayed, nothing is pending
\* and no error is shown.
C25_Witness ==
    /\ ~loading
    /\ results # null
    /\ timer = <<>>
    /\ error = ""


\* C26: a validation that starts captures the input text of that moment;
\* while it is in progress, no edit and no file load changes what was
\* captured; and the result it delivers is the classification of the captured
\* text, whatever the text area holds by then.
C26_ResultOfTextAtStart ==
    [][ /\ (~loading /\ loading') => timer' = <<inputText>>
        /\ (loading /\ loading') => timer' = timer
        /\ (loading /\ ~loading') => results' = <<validationResult(Head(timer))>>
      ]_vars

\* A result with entries is displayed while the text area is empty.
C26_Witness ==
    /\ ~loading
    /\ results # null
    /\ results[1].total > 0
    /\ inputText = <<>>


\* C27: a step that raises the input-required error happens on blank text
\* and changes the error message only: the displayed result, the input text,
\* the loading flag, the pending timers and the pending reads are unchanged.
C27_RejectionKeepsResult ==
    [][ (error' = InputRequired /\ error # InputRequired) =>
            /\ trim(inputText) = <<>>
            /\ results' = results
            /\ inputText' = inputText
            /\ loading' = loading
            /\ timer' = timer
            /\ reader' = reader
      ]_vars

\* The result of an earlier validation is displayed together with the
\* input-required error of a later, rejected one.
C27_Witness ==
    /\ error = InputRequired
    /\ results # null
    /\ results[1].total > 0
    /\ trim(inputText) = <<>>


\* C28: in every reachable state loading = true implies results = null, and
\* the step that starts a validation leaves no result and no error displayed.
C28_NoResultWhileLoading ==
    /\ [](loading => results = null)
    /\ [][ (~loading /\ loading') => (results' = null /\ error' = "") ]_vars

\* A validation of the text in the text area is in progress; no result and no
\* error are displayed.
C28_Witness ==
    /\ loading
    /\ results = null
    /\ error = ""
    /\ timer = <<inputText>>


\* How many entries of a list equal e.
occurrences(list, e) == Cardinality({i \in 1..Len(list) : list[i] = e})

\* C29: when the extracted list, joined by newlines, is validated, total is
\* the number of extracted addresses, duplicates is 0, and every extracted
\* address stands, unchanged, exactly once in valid, invalid and risky taken
\* together, which hold nothing else.
C29_ExtractThenValidate ==
    results # null =>
        LET r == results[1]
            n == Len(extractedEmails)
        IN  /\ n > 0
            /\ inputText = join(extractedEmails, "\n")
            /\ r.total = n
            /\ r.duplicates = 0
            /\ Len(allListed(r)) = n
            /\ \A i \in 1..n : occurrences(allListed(r), extractedEmails[i]) = 1

\* Two addresses were extracted from a text and validated: one is valid, the
\* other invalid.
C29_Witness ==
    /\ results # null
    /\ Len(extractedEmails) = 2
    /\ Len(results[1].valid) = 1
    /\ Len(results[1].invalid) = 1

=============================================================================
